---------------------------- MODULE Spec2Model ----------------------------
(***************************************************************************)
(* A model of the U-Bahn graph programs:                                   *)
(*   task_1.py  create_graph_from_ubahn  (graph construction)              *)
(*   task_2.py  dfs_path, bfs_path       (unweighted path search)          *)
(*   task_3.py  add_random_weights, dijkstra_shortest_path, callers        *)
(* The networkx calls the programs make (Graph.add_edge, Graph.copy,       *)
(* Graph.edges, Graph.neighbors, dijkstra_path, shortest_path) are         *)
(* modelled by what they do to the graph's insertion-ordered dictionaries. *)
(***************************************************************************)
EXTENDS Integers, Sequences, FiniteSets, TLC

(***************************************************************************)
(* Bounds of the model.                                                    *)
(***************************************************************************)
MaxLineLen == 3
\* edges of the graphs handed to add_random_weights
MaxWeightEdges == 2
\* size of the state space of the model's random generator
RngModulus == 8

\* edges of the graphs searched by dfs_path and bfs_path
MaxEdges == 4
\* add_edge calls that build the graphs given explicit weights
MaxDijkstraEdges == 3

Stations == {"A", "B", "C", "D"}
\* the stations of the line data and of the graphs that are given weights
SmallStations == {"A", "B", "C"}
\* a name that is a station of no graph
NoStation == "Z"
LineNames == <<"U1", "U2">>
LineColor == [l \in {"U1", "U2"} |-> IF l = "U1" THEN "green" ELSE "red"]

None == "None"

VARIABLES
    \* ---- task_1.create_graph_from_ubahn
    data,           \* the line data: a sequence of [name, stations, color]
    G,              \* the nx.Graph being built
    station_lines,  \* dict station -> list of line names
    line_colors,    \* dict line name -> color
    li,             \* position of the outer loop (line 26) in data
    i,              \* position of the inner loop (line 32)
    pc              \* control point of create_graph_from_ubahn

    ,
    \* ---- task_3.add_random_weights, called twice (Calls)
    heap,           \* the graph objects: reference -> nx.Graph
    rng,            \* the state of the random module's shared generator
    wargs,          \* per call: [min_weight, max_weight, seed]
    wref,           \* per call: the local weighted_graph (a reference)
    wedges,         \* per call: what weighted_graph.edges() has yet to yield
    wpc,            \* per call: control point
    opc,            \* control point of a thread that draws one random number
    \* ---- task_2.compare_paths: dfs_path, then bfs_path
    graph,          \* the graph searched
    start,          \* the query
    goal,
    visited,        \* the visited set of the running search
    stack,          \* dfs_path's stack of (node, path)
    queue,          \* bfs_path's queue of (node, path)
    dfs_result,     \* what dfs_path returned
    bfs_result,     \* what bfs_path returned
    spc,            \* control point of compare_paths
    \* ---- task_3: main, dijkstra_shortest_path, compare_with_bfs
    weighted_G,     \* the graph given to dijkstra_shortest_path
    dij_result,     \* what dijkstra_shortest_path returned or raised
    bfs_cmp,        \* compare_with_bfs: bfs_path and bfs_weighted_distance
    display_result, \* what display_shortest_path returned to demonstrate_dijkstra
    demo_error,     \* the exception that ended demonstrate_dijkstra, if any
    dpc             \* control point of task_3

buildVars == <<data, G, station_lines, line_colors, li, i, pc>>
weightVars == <<heap, rng, wargs, wref, wedges, wpc, opc>>
searchVars == <<graph, start, goal, visited, stack, queue, dfs_result, bfs_result, spc>>
dijkstraVars == <<weighted_G, dij_result, bfs_cmp, display_result, demo_error, dpc>>
vars == <<buildVars, weightVars, searchVars, dijkstraVars>>

(***************************************************************************)
(* Helpers on sequences and dictionaries.                                  *)
(***************************************************************************)
Range(s) == {s[k] : k \in DOMAIN s}

SeqsUpTo(S, n) == UNION {[1..k -> S] : k \in 0..n}

\* d[key] = val on a dict (a function whose DOMAIN is the key set)
DictSet(d, key, val) ==
    [k \in (DOMAIN d) \cup {key} |-> IF k = key THEN val ELSE d[k]]

EmptyDict == [k \in {} |-> None]

(***************************************************************************)
(* nx.Graph: _node (insertion-ordered), _adj (insertion-ordered per node), *)
(* one shared attribute dict per undirected edge, node attribute dicts.    *)
(***************************************************************************)
EmptyGraph ==
    [nodes |-> <<>>,
     adj   |-> [s \in {} |-> <<>>],
     eattr |-> EmptyDict,
     nattr |-> EmptyDict]

HasNode(g, n) == n \in Range(g.nodes)

Neighbors(g, n) == g.adj[n]

HasEdge(g, u, v) == HasNode(g, u) /\ v \in Range(g.adj[u])

\* Graph.add_node side of add_edge: a new node gets empty dicts
AddNode(g, n) ==
    IF HasNode(g, n) THEN g
    ELSE [g EXCEPT !.nodes = Append(@, n),
                   !.adj   = DictSet(@, n, <<>>),
                   !.nattr = DictSet(@, n, [lines |-> {}, is_transfer |-> FALSE, set |-> FALSE])]

\* An edge's attribute dict: the keys that are set and their values (the
\* value of a key that is not set is never read).
NoAttr == [keys |-> {}, line |-> "", color |-> "", weight |-> 0]

\* datadict = self._adj[u].get(v, {}); datadict.update(attr): the keys attr
\* gives are overwritten, the others stay
UpdatedAttr(g, u, v, attr) ==
    LET old == IF {u, v} \in DOMAIN g.eattr THEN g.eattr[{u, v}] ELSE NoAttr
        Pick(k) == IF k \in attr.keys THEN attr[k] ELSE old[k]
    IN  [keys |-> old.keys \cup attr.keys,
         line |-> Pick("line"), color |-> Pick("color"), weight |-> Pick("weight")]

\* Graph.add_edge(u, v, **attr): both nodes are created when new, v enters
\* u's adjacency dict and u enters v's (a present key keeps its position),
\* and both entries hold the one attribute dict of the edge
AddEdgeAttr(g, u, v, attr) ==
    LET g1 == AddNode(AddNode(g, u), v)
        au == IF v \in Range(g1.adj[u]) THEN g1.adj[u] ELSE Append(g1.adj[u], v)
        a1 == [g1.adj EXCEPT ![u] = au]
        av == IF u \in Range(a1[v]) THEN a1[v] ELSE Append(a1[v], u)
    IN  [g1 EXCEPT !.adj   = [a1 EXCEPT ![v] = av],
                   !.eattr = DictSet(@, {u, v}, UpdatedAttr(g, u, v, attr))]

\* G.add_edge(station1, station2, line=line_name, color=color)
AddEdge(g, u, v, line, color) ==
    AddEdgeAttr(g, u, v, [keys |-> {"line", "color"}, line |-> line, color |-> color, weight |-> 0])

(***************************************************************************)
(* task_1.create_graph_from_ubahn, one action per loop step.               *)
(***************************************************************************)
\* a station list: non-empty, no station directly followed by itself
StationLists ==
    {st \in SeqsUpTo(SmallStations, MaxLineLen) :
        Len(st) >= 1 /\ \A k \in 1..(Len(st) - 1) : st[k] # st[k + 1]}

LineData == {[name |-> "", stations |-> st, color |-> ""] : st \in StationLists}

\* line data: named lines in the order supplied, every station list non-empty
DataSets ==
    {<<>>}
    \cup {<<[d1 EXCEPT !.name = LineNames[1], !.color = LineColor[LineNames[1]]]>> : d1 \in LineData}
    \cup {<<[d1 EXCEPT !.name = LineNames[1], !.color = LineColor[LineNames[1]]],
            [d2 EXCEPT !.name = LineNames[2], !.color = LineColor[LineNames[2]]]>> :
            d1 \in LineData, d2 \in LineData}

\* add_random_weights is not running
WeightsIdle ==
    /\ heap = EmptyDict
    /\ rng = 0
    /\ wargs = EmptyDict
    /\ wref = EmptyDict
    /\ wedges = EmptyDict
    /\ wpc = EmptyDict
    /\ opc = "idle"

\* no path query is running
SearchIdle ==
    /\ graph = EmptyGraph
    /\ start = None
    /\ goal = None
    /\ visited = {}
    /\ stack = <<>>
    /\ queue = <<>>
    /\ dfs_result = None
    /\ bfs_result = None
    /\ spc = "idle"

\* task_3's queries are not running
DijkstraIdle ==
    /\ weighted_G = EmptyGraph
    /\ dij_result = None
    /\ bfs_cmp = None
    /\ display_result = None
    /\ demo_error = None
    /\ dpc = "idle"

InitBuild ==
    /\ WeightsIdle
    /\ SearchIdle
    /\ DijkstraIdle
    /\ data \in DataSets
    /\ G = EmptyGraph
    /\ station_lines = EmptyDict
    /\ line_colors = EmptyDict
    /\ li = 0
    /\ i = 0
    /\ pc = "lines"

\* line 26-29: the next line of data.items()
NextLine ==
    /\ pc = "lines"
    /\ li < Len(data)
    /\ li' = li + 1
    /\ i' = 0
    /\ line_colors' = DictSet(line_colors, data[li + 1].name, data[li + 1].color)
    /\ pc' = "pairs"
    /\ UNCHANGED <<data, G, station_lines>>

\* a slip of lines 37-43: the line is recorded for station1 only
AppendLinesFirstOnly(sl, s1, s2, ln) ==
    LET sl1 == IF s1 \in DOMAIN sl THEN sl ELSE DictSet(sl, s1, <<>>)
        sl2 == IF s2 \in DOMAIN sl1 THEN sl1 ELSE DictSet(sl1, s2, <<>>)
    IN  [sl2 EXCEPT ![s1] = Append(@, ln)]

\* station_lines after lines 37-43 for the pair (s1, s2) of line ln
AppendLines(sl, s1, s2, ln) ==
    LET sl1 == IF s1 \in DOMAIN sl THEN sl ELSE DictSet(sl, s1, <<>>)
        sl2 == IF s2 \in DOMAIN sl1 THEN sl1 ELSE DictSet(sl1, s2, <<>>)
        sl3 == [sl2 EXCEPT ![s1] = Append(@, ln)]
    IN  [sl3 EXCEPT ![s2] = Append(@, ln)]

\* line 32-46: one iteration of the inner loop
ProcessPair ==
    /\ pc = "pairs"
    /\ i < Len(data[li].stations) - 1
    /\ LET station1 == data[li].stations[i + 1]
           station2 == data[li].stations[i + 2]
       IN  /\ station_lines' = AppendLines(station_lines, station1, station2, data[li].name)
           /\ G' = AddEdge(G, station1, station2, data[li].name, data[li].color)
    /\ i' = i + 1
    /\ UNCHANGED <<data, line_colors, li, pc>>

\* line 32: range(len(stations) - 1) is exhausted
EndLine ==
    /\ pc = "pairs"
    /\ ~(i < Len(data[li].stations) - 1)
    /\ pc' = "lines"
    /\ UNCHANGED <<data, G, station_lines, line_colors, li, i>>

\* line 49-51: node attributes from station_lines
SetNodeAttrs(g, sl) ==
    [g EXCEPT !.nattr =
        [n \in DOMAIN g.nattr |->
            IF n \in DOMAIN sl
            THEN [lines |-> Range(sl[n]),
                  is_transfer |-> Cardinality(Range(sl[n])) > 1,
                  set |-> TRUE]
            ELSE g.nattr[n]]]

\* line 26 exhausted, 49-53: attributes are set and the graph is returned
ReturnGraph ==
    /\ pc = "lines"
    /\ ~(li < Len(data))
    /\ G' = SetNodeAttrs(G, station_lines)
    /\ pc' = "built"
    /\ UNCHANGED <<data, station_lines, line_colors, li, i>>

NextBuild ==
    \/ NextLine /\ UNCHANGED <<weightVars, searchVars, dijkstraVars>>
    \/ ProcessPair /\ UNCHANGED <<weightVars, searchVars, dijkstraVars>>
    \/ EndLine /\ UNCHANGED <<weightVars, searchVars, dijkstraVars>>
    \/ ReturnGraph /\ UNCHANGED <<weightVars, searchVars, dijkstraVars>>

SpecBuild == InitBuild /\ [][NextBuild]_vars

(***************************************************************************)
(* Claims about create_graph_from_ubahn.                                   *)
(***************************************************************************)
\* the stations named in the input
NamedStations == UNION {Range(data[k].stations) : k \in DOMAIN data}

Occurrences(seq, x) == Cardinality({k \in DOMAIN seq : seq[k] = x})

\* C5: every station named in any line's station list appears exactly once
\* as a node of the built graph, a station of a single-station line included.
C5_EveryNamedStationIsANode ==
    pc = "built" => \A s \in NamedStations : Occurrences(G.nodes, s) = 1

\* the 'line' tags of the edges incident to station n
IncidentEdgeLines(g, n) == {g.eattr[e].line : e \in {e \in DOMAIN g.eattr : n \in e}}

\* the consecutive station pairs of line k
ConsecutivePairs(k) ==
    {{data[k].stations[j], data[k].stations[j + 1]} : j \in 1..(Len(data[k].stations) - 1)}

\* two different lines connect the same pair of stations consecutively
SharedPair ==
    \E k1, k2 \in DOMAIN data : k1 # k2 /\ ConsecutivePairs(k1) \cap ConsecutivePairs(k2) # {}

\* C6 as stated: each station's line-set equals the union of the line names
\* on its incident edges, also when two lines connect the same station pair.
C6_LineSetEqualsEdgeLines ==
    pc = "built" =>
        \A n \in Range(G.nodes) : G.nattr[n].lines = IncidentEdgeLines(G, n)

\* C6 amended: each station's line-set contains the line names on its
\* incident edges, and equals their union when no two different lines
\* connect the same pair of stations consecutively.
C6_LineSetCoversEdgeLines ==
    pc = "built" =>
        \A n \in Range(G.nodes) :
            /\ IncidentEdgeLines(G, n) \subseteq G.nattr[n].lines
            /\ ~SharedPair => G.nattr[n].lines = IncidentEdgeLines(G, n)

\* C6 witness: a built graph of two lines sharing a station pair, where the
\* overwritten line is on no incident edge of a station that lies on it.
C6_Witness ==
    /\ pc = "built"
    /\ SharedPair
    /\ \E n \in Range(G.nodes) :
          /\ Cardinality(G.nattr[n].lines) = 2
          /\ Cardinality(IncidentEdgeLines(G, n)) = 1


(***************************************************************************)
(* Graphs as the programs receive them: built by add_edge calls.           *)
(***************************************************************************)
RECURSIVE AddEdges(_, _)
\* the graph after add_edge for every pair of es, in order
AddEdges(g, es) ==
    IF es = <<>> THEN g
    ELSE AddEdges(AddEdge(g, es[1][1], es[1][2], LineNames[1], LineColor[LineNames[1]]), Tail(es))

\* station pairs (u, v) with u # v
StationPairs(S) == {p \in S \X S : p[1] # p[2]}

\* every graph on stations S that at most n add_edge calls build, its
\* stations on one line
GraphsUpTo(S, n) ==
    {LET g == AddEdges(EmptyGraph, es)
     IN  SetNodeAttrs(g, [s \in Range(g.nodes) |-> <<LineNames[1]>>]) :
     es \in SeqsUpTo(StationPairs(S), n)}

(***************************************************************************)
(* networkx views and copies.                                              *)
(***************************************************************************)
RECURSIVE Flatten(_)
Flatten(ss) == IF ss = <<>> THEN <<>> ELSE ss[1] \o Flatten(Tail(ss))

\* G.edges(): for each node in node order, its neighbours in adjacency
\* order that are not nodes already passed
EdgesOf(g) ==
    Flatten([k \in 1..Len(g.nodes) |->
        LET n == g.nodes[k]
            seen == {g.nodes[j] : j \in 1..(k - 1)}
            Unseen(nbr) == nbr \notin seen
            nbrs == SelectSeq(g.adj[n], Unseen)
        IN  [j \in 1..Len(nbrs) |-> <<n, nbrs[j]>>]])

\* every (u, v) of G._adj.items() x nbrs.items(), the order copy() adds in
AdjacencyPairs(g) ==
    Flatten([k \in 1..Len(g.nodes) |->
        LET n == g.nodes[k]
        IN  [j \in 1..Len(g.adj[n]) |-> <<n, g.adj[n][j]>>]])

RECURSIVE AddNodesFrom(_, _, _)
\* add_nodes_from((n, d.copy()) for n, d in self._node.items())
AddNodesFrom(g, ns, src) ==
    IF ns = <<>> THEN g
    ELSE AddNodesFrom([AddNode(g, ns[1]) EXCEPT !.nattr[ns[1]] = src.nattr[ns[1]]], Tail(ns), src)

RECURSIVE AddEdgesFrom(_, _, _)
\* add_edges_from((u, v, datadict.copy()) ...)
AddEdgesFrom(g, ps, src) ==
    IF ps = <<>> THEN g
    ELSE AddEdgesFrom(AddEdgeAttr(g, ps[1][1], ps[1][2], src.eattr[{ps[1][1], ps[1][2]}]), Tail(ps), src)

\* Graph.copy(): a new graph with the nodes, the edges and copies of the
\* attribute dicts
GraphCopy(g) ==
    AddEdgesFrom(AddNodesFrom(EmptyGraph, g.nodes, g), AdjacencyPairs(g), g)

(***************************************************************************)
(* The random module: one generator shared by the whole process.           *)
(* The Mersenne Twister is modelled by a full-period linear congruential   *)
(* generator on RngModulus states; random() returns state / RngModulus.    *)
(* Weights are counted in thousandths.                                     *)
(***************************************************************************)
RngStates == 0..(RngModulus - 1)

\* random.seed(seed): the state is a function of the seed alone
SeedState(seed) == seed % RngModulus

\* a slip: the generator is left as it is
ReseedKeeps(state, seed) == state

\* line 26: random.seed(seed) on the shared generator
Reseed(state, seed) == SeedState(seed)

\* the generator's step; the new state is random()'s value times RngModulus
NextRng(state) == (5 * state + 3) % RngModulus

\* a slip: a + b * random()
UniformNoOffset(a, b, r) == a + (b * r) \div RngModulus

\* random.uniform(a, b) = a + (b - a) * random()
Uniform(a, b, r) == a + ((b - a) * r) \div RngModulus

\* round(weight, 2) on thousandths: to the nearest hundredth, a tie to the
\* even one
Round2(x) ==
    LET q == x \div 10
        r == x % 10
    IN  IF r < 5 THEN 10 * q
        ELSE IF r > 5 THEN 10 * (q + 1)
        ELSE IF q % 2 = 0 THEN 10 * q ELSE 10 * (q + 1)

(***************************************************************************)
(* task_3.add_random_weights, one action per statement.                    *)
(***************************************************************************)
Calls == {1, 2}

\* the reference of the graph argument
SrcRef == 0

Seeds == {42, 7}

\* (min_weight, max_weight) in thousandths: the program's 2..3, a range
\* whose ends are no multiples of 0.01, and one close to zero
Ranges == {<<2000, 3000>>, <<2004, 2018>>, <<1, 14>>}

WeightArgs == {[min_weight |-> rg[1], max_weight |-> rg[2], seed |-> sd] : rg \in Ranges, sd \in Seeds}

\* create_graph_from_ubahn is not running
BuildIdle ==
    /\ data = <<>>
    /\ G = EmptyGraph
    /\ station_lines = EmptyDict
    /\ line_colors = EmptyDict
    /\ li = 0
    /\ i = 0
    /\ pc = "idle"

InitWeights ==
    /\ BuildIdle
    /\ SearchIdle
    /\ DijkstraIdle
    /\ heap \in {[r \in {SrcRef} |-> g] : g \in GraphsUpTo(SmallStations, MaxWeightEdges)}
    /\ rng \in RngStates
    /\ wargs \in [Calls -> WeightArgs]
    /\ wref = [c \in Calls |-> None]
    /\ wedges = [c \in Calls |-> <<>>]
    /\ wpc = [c \in Calls |-> "idle"]
    /\ opc = "idle"

Running(c) == wpc[c] \notin {"idle", "done"}

\* the call add_random_weights(graph, min_weight, max_weight, seed)
Call(c) ==
    /\ wpc[c] = "idle"
    /\ wpc' = [wpc EXCEPT ![c] = "l26"]
    /\ UNCHANGED <<heap, rng, wargs, wref, wedges, opc>>

\* line 26
RandomSeed(c) ==
    /\ wpc[c] = "l26"
    /\ rng' = Reseed(rng, wargs[c].seed)
    /\ wpc' = [wpc EXCEPT ![c] = "l29"]
    /\ UNCHANGED <<heap, wargs, wref, wedges, opc>>

\* a slip: weighted_graph = graph
CopyTargetAlias(src, fresh) == src

\* the object graph.copy() returns: a new one
CopyTarget(src, fresh) == fresh

\* line 29 and the start of the iteration of line 32
CopyGraph(c) ==
    /\ wpc[c] = "l29"
    /\ LET ref == CopyTarget(SrcRef, c)
       IN  /\ heap' = DictSet(heap, ref, GraphCopy(heap[SrcRef]))
           /\ wref' = [wref EXCEPT ![c] = ref]
           /\ wedges' = [wedges EXCEPT ![c] = EdgesOf(GraphCopy(heap[SrcRef]))]
    /\ wpc' = [wpc EXCEPT ![c] = "l32"]
    /\ UNCHANGED <<rng, wargs, opc>>

\* weighted_graph[u][v]['weight'] = w
SetWeight(g, u, v, w) ==
    [g EXCEPT !.eattr[{u, v}].weight = w, !.eattr[{u, v}].keys = @ \cup {"weight"}]

\* line 32-34: one iteration, one draw
AssignWeight(c) ==
    /\ wpc[c] = "l32"
    /\ wedges[c] # <<>>
    /\ rng' = NextRng(rng)
    /\ LET u == wedges[c][1][1]
           v == wedges[c][1][2]
           weight == Uniform(wargs[c].min_weight, wargs[c].max_weight, rng')
       IN  heap' = [heap EXCEPT ![wref[c]] = SetWeight(@, u, v, Round2(weight))]
    /\ wedges' = [wedges EXCEPT ![c] = Tail(@)]
    /\ UNCHANGED <<wargs, wref, wpc, opc>>

\* line 36
ReturnWeighted(c) ==
    /\ wpc[c] = "l32"
    /\ wedges[c] = <<>>
    /\ wpc' = [wpc EXCEPT ![c] = "done"]
    /\ UNCHANGED <<heap, rng, wargs, wref, wedges, opc>>

\* any other user of the random module: seeds it or draws from it
OtherConsumer ==
    /\ \E r \in RngStates : rng' = r
    /\ UNCHANGED <<heap, wargs, wref, wedges, wpc, opc>>

\* The program as written: one thread, a call runs to its return before
\* anything else runs.
NextWeights ==
    \/ \E c \in Calls : (\A o \in Calls : ~Running(o)) /\ Call(c) /\ UNCHANGED <<buildVars, searchVars, dijkstraVars>>
    \/ \E c \in Calls : RandomSeed(c) /\ UNCHANGED <<buildVars, searchVars, dijkstraVars>>
    \/ \E c \in Calls : CopyGraph(c) /\ UNCHANGED <<buildVars, searchVars, dijkstraVars>>
    \/ \E c \in Calls : AssignWeight(c) /\ UNCHANGED <<buildVars, searchVars, dijkstraVars>>
    \/ \E c \in Calls : ReturnWeighted(c) /\ UNCHANGED <<buildVars, searchVars, dijkstraVars>>
    \/ (\A o \in Calls : ~Running(o)) /\ OtherConsumer /\ UNCHANGED <<buildVars, searchVars, dijkstraVars>>

SpecWeights == InitWeights /\ [][NextWeights]_vars

\* another thread draws from the random module, once
OtherDraw ==
    /\ opc = "idle"
    /\ rng' = NextRng(rng)
    /\ opc' = "done"
    /\ UNCHANGED <<heap, wargs, wref, wedges, wpc>>

\* Calls on two threads: the statements of the calls, and of other users of
\* the random module, interleave.
NextThreads ==
    \/ \E c \in Calls : Call(c) /\ UNCHANGED <<buildVars, searchVars, dijkstraVars>>
    \/ \E c \in Calls : RandomSeed(c) /\ UNCHANGED <<buildVars, searchVars, dijkstraVars>>
    \/ \E c \in Calls : CopyGraph(c) /\ UNCHANGED <<buildVars, searchVars, dijkstraVars>>
    \/ \E c \in Calls : AssignWeight(c) /\ UNCHANGED <<buildVars, searchVars, dijkstraVars>>
    \/ \E c \in Calls : ReturnWeighted(c) /\ UNCHANGED <<buildVars, searchVars, dijkstraVars>>
    \/ OtherDraw /\ UNCHANGED <<buildVars, searchVars, dijkstraVars>>

\* two threads calling with the program's range 2..3
InitThreads ==
    /\ BuildIdle
    /\ SearchIdle
    /\ DijkstraIdle
    /\ heap \in {[r \in {SrcRef} |-> g] : g \in GraphsUpTo(SmallStations, MaxWeightEdges)}
    /\ rng = 0
    /\ wargs \in [Calls -> {a \in WeightArgs : a.min_weight = 2000 /\ a.max_weight = 3000}]
    /\ wref = [c \in Calls |-> None]
    /\ wedges = [c \in Calls |-> <<>>]
    /\ wpc = [c \in Calls |-> "idle"]
    /\ opc = "idle"

SpecThreads == InitThreads /\ [][NextThreads]_vars


(***************************************************************************)
(* Claims about add_random_weights.                                        *)
(***************************************************************************)
RECURSIVE AssignAll(_, _, _, _)
\* lines 32-34 run without interruption from generator state `state`
AssignAll(g, es, state, a) ==
    IF es = <<>> THEN g
    ELSE LET r == NextRng(state)
         IN  AssignAll(SetWeight(g, es[1][1], es[1][2], Round2(Uniform(a.min_weight, a.max_weight, r))),
                       Tail(es), r, a)

\* the graph a call returns when nothing else runs during it
RunAlone(g, a) == AssignAll(GraphCopy(g), EdgesOf(GraphCopy(g)), SeedState(a.seed), a)

Done(c) == wpc[c] = "done"

Returned(c) == heap[wref[c]]

HasWeight(g, e) == "weight" \in g.eattr[e].keys

WeightOf(g, e) == g.eattr[e].weight

\* C7: whatever is interleaved with a call, the call assigns to every edge
\* the weight it assigns when run alone with the same graph, range and seed.
C7_InterleavedCallAssignsAloneWeights ==
    \A c \in Calls :
        Done(c) => \A e \in DOMAIN Returned(c).eattr :
            /\ HasWeight(Returned(c), e)
            /\ WeightOf(Returned(c), e) = WeightOf(RunAlone(heap[SrcRef], wargs[c]), e)

\* C8: two calls, one after the other, on the same graph with the same range
\* and seed give every edge the same weight, whatever was done to the
\* generator between them.
C8_SameSeedSameWeights ==
    \A c1, c2 \in Calls :
        (Done(c1) /\ Done(c2) /\ wargs[c1] = wargs[c2]) =>
            \A e \in DOMAIN heap[SrcRef].eattr :
                /\ HasWeight(Returned(c1), e) /\ HasWeight(Returned(c2), e)
                /\ WeightOf(Returned(c1), e) = WeightOf(Returned(c2), e)

\* C8 witness: both calls returned, same arguments, a graph of two edges, and
\* the generator is not where the second call left it.
C8_Witness ==
    /\ Done(1) /\ Done(2)
    /\ wargs[1] = wargs[2]
    /\ Len(EdgesOf(heap[SrcRef])) = 2
    /\ rng # NextRng(NextRng(SeedState(wargs[1].seed)))

\* C9: no step of a call changes the source graph, and the graph returned is
\* another object than the source.
C9_SourceGraphNotMutated ==
    [][/\ heap'[SrcRef] = heap[SrcRef]
       /\ \A c \in Calls : wpc'[c] = "done" => wref'[c] # SrcRef]_vars

\* C9 witness: a call has returned a graph whose edges carry weights while
\* the edges of the source carry none.
C9_Witness ==
    \E c \in Calls :
        /\ Done(c)
        /\ DOMAIN heap[SrcRef].eattr # {}
        /\ \A e \in DOMAIN heap[SrcRef].eattr :
              ~HasWeight(heap[SrcRef], e) /\ HasWeight(Returned(c), e)

Hundredth(w) == w % 10 = 0

\* C10 as stated: every edge of the returned graph carries a weight rounded
\* to two decimals, strictly positive and within [min_weight, max_weight].
C10_WeightsRoundedPositiveInRange ==
    \A c \in Calls :
        Done(c) => \A e \in DOMAIN Returned(c).eattr :
            LET w == WeightOf(Returned(c), e)
            IN  /\ HasWeight(Returned(c), e)
                /\ Hundredth(w)
                /\ w > 0
                /\ wargs[c].min_weight <= w /\ w <= wargs[c].max_weight

\* C10 amended: every edge of the returned graph carries a weight rounded to
\* two decimals within [round(min_weight, 2), round(max_weight, 2)]; when
\* min_weight and max_weight are multiples of 0.01 it is strictly positive
\* and within [min_weight, max_weight].
C10_WeightsRoundedInRoundedRange ==
    \A c \in Calls :
        Done(c) => \A e \in DOMAIN Returned(c).eattr :
            LET w == WeightOf(Returned(c), e)
                lo == wargs[c].min_weight
                hi == wargs[c].max_weight
            IN  /\ HasWeight(Returned(c), e)
                /\ Hundredth(w)
                /\ Round2(lo) <= w /\ w <= Round2(hi)
                /\ (Hundredth(lo) /\ Hundredth(hi)) => (w > 0 /\ lo <= w /\ w <= hi)

\* C10 witness: a returned graph with a weight below a min_weight that is no
\* multiple of 0.01.
C10_Witness ==
    \E c \in Calls :
        /\ Done(c)
        /\ ~Hundredth(wargs[c].min_weight)
        /\ \E e \in DOMAIN Returned(c).eattr :
              /\ HasWeight(Returned(c), e)
              /\ WeightOf(Returned(c), e) < wargs[c].min_weight


(***************************************************************************)
(* task_2: compare_paths runs dfs_path, then bfs_path, on one query.       *)
(* One action per loop iteration of either search.                         *)
(***************************************************************************)
\* a returned list, and the returned None
ListResult(p) == [kind |-> "list", value |-> p]
NoneResult == [kind |-> "None", value |-> <<>>]

Queries == Stations \cup {NoStation}

\* the result variable of a call that has not returned yet
NotReturned == [kind |-> "pending", value |-> <<>>]
NotReturnedTriple ==
    [kind |-> "pending", path |-> <<>>, total_distance |-> 0, edge_details |-> <<>>, error |-> ""]

InitSearch ==
    /\ BuildIdle
    /\ WeightsIdle
    /\ graph \in GraphsUpTo(Stations, MaxEdges)
    /\ start \in Queries
    /\ goal \in Queries
    /\ visited = {}
    /\ stack = <<>>
    /\ queue = <<>>
    /\ dfs_result = NotReturned
    /\ bfs_result = NotReturned
    /\ spc = "dfs_call"
    /\ weighted_G = EmptyGraph
    /\ dij_result = NotReturnedTriple
    /\ bfs_cmp = None
    /\ display_result = None
    /\ demo_error = None
    /\ dpc = "main"

Reverse(seq) == [k \in 1..Len(seq) |-> seq[Len(seq) + 1 - k]]

Entry(node, path) == [node |-> node, path |-> path]

\* task_2.py:21-22
DfsNotInGraph ==
    /\ spc = "dfs_call"
    /\ ~HasNode(graph, start) \/ ~HasNode(graph, goal)
    /\ spc' = "bfs_call"
    /\ dfs_result' = NoneResult
    /\ UNCHANGED <<graph, start, goal, visited, stack, queue, bfs_result>>

\* task_2.py:25-26
DfsBegin ==
    /\ spc = "dfs_call"
    /\ HasNode(graph, start) /\ HasNode(graph, goal)
    /\ visited' = {}
    /\ stack' = <<Entry(start, <<start>>)>>
    /\ spc' = "dfs_loop"
    /\ UNCHANGED <<graph, start, goal, queue, dfs_result, bfs_result>>

\* stack.pop()
StackTop(st) == st[Len(st)]
StackRest(st) == SubSeq(st, 1, Len(st) - 1)

\* task_2.py:29-32: the popped node is the goal
DfsReturnPath ==
    /\ spc = "dfs_loop"
    /\ stack # <<>>
    /\ StackTop(stack).node = goal
    /\ spc' = "bfs_call"
    /\ dfs_result' = ListResult(StackTop(stack).path)
    /\ stack' = StackRest(stack)
    /\ UNCHANGED <<graph, start, goal, visited, queue, bfs_result>>

\* a slip of line 41: stack.append((neighbor, path))
DfsPushedSamePath(path, neighbor) == Entry(neighbor, path)

\* line 41: stack.append((neighbor, path + [neighbor]))
DfsPushed(path, neighbor) == Entry(neighbor, Append(path, neighbor))

\* a slip of line 35: visited.add(current) is left out
DfsExpandNoMark ==
    /\ spc = "dfs_loop"
    /\ stack # <<>>
    /\ LET current == StackTop(stack).node
           path == StackTop(stack).path
           Unvisited(n) == n \notin visited
           pushed == SelectSeq(Reverse(Neighbors(graph, current)), Unvisited)
       IN  /\ current # goal
           /\ current \notin visited
           /\ visited' = visited
           /\ stack' = StackRest(stack) \o [k \in 1..Len(pushed) |-> DfsPushed(path, pushed[k])]
    /\ UNCHANGED <<graph, start, goal, queue, dfs_result, bfs_result, spc>>

\* task_2.py:29-41: the popped node is new: it is marked and its unvisited
\* neighbours are pushed, the first of them last
DfsExpand ==
    /\ spc = "dfs_loop"
    /\ stack # <<>>
    /\ LET current == StackTop(stack).node
           path == StackTop(stack).path
           Unvisited(n) == n \notin visited'
           pushed == SelectSeq(Reverse(Neighbors(graph, current)), Unvisited)
       IN  /\ current # goal
           /\ current \notin visited
           /\ visited' = visited \cup {current}
           /\ stack' = StackRest(stack) \o [k \in 1..Len(pushed) |-> DfsPushed(path, pushed[k])]
    /\ UNCHANGED <<graph, start, goal, queue, dfs_result, bfs_result, spc>>

\* task_2.py:29-34: the popped node was expanded before
DfsSkip ==
    /\ spc = "dfs_loop"
    /\ stack # <<>>
    /\ StackTop(stack).node # goal
    /\ StackTop(stack).node \in visited
    /\ stack' = StackRest(stack)
    /\ UNCHANGED <<graph, start, goal, visited, queue, dfs_result, bfs_result, spc>>

\* task_2.py:28, 43: the stack is empty
DfsReturnNone ==
    /\ spc = "dfs_loop"
    /\ stack = <<>>
    /\ spc' = "bfs_call"
    /\ dfs_result' = NoneResult
    /\ UNCHANGED <<graph, start, goal, visited, stack, queue, bfs_result>>

\* task_2.py:55-56
BfsNotInGraph ==
    /\ spc = "bfs_call"
    /\ ~HasNode(graph, start) \/ ~HasNode(graph, goal)
    /\ spc' = "done"
    /\ bfs_result' = NoneResult
    /\ UNCHANGED <<graph, start, goal, visited, stack, queue, dfs_result>>

\* task_2.py:59-60
BfsBegin ==
    /\ spc = "bfs_call"
    /\ HasNode(graph, start) /\ HasNode(graph, goal)
    /\ visited' = {start}
    /\ queue' = <<Entry(start, <<start>>)>>
    /\ spc' = "bfs_loop"
    /\ UNCHANGED <<graph, start, goal, stack, dfs_result, bfs_result>>

\* task_2.py:63-66: the dequeued node is the goal
BfsReturnPath ==
    /\ spc = "bfs_loop"
    /\ queue # <<>>
    /\ Head(queue).node = goal
    /\ spc' = "done"
    /\ bfs_result' = ListResult(Head(queue).path)
    /\ queue' = Tail(queue)
    /\ UNCHANGED <<graph, start, goal, visited, stack, dfs_result>>

\* a slip of line 72: queue.append((neighbor, path))
BfsEnqueuedSamePath(path, neighbor) == Entry(neighbor, path)

\* line 72: queue.append((neighbor, path + [neighbor]))
BfsEnqueued(path, neighbor) == Entry(neighbor, Append(path, neighbor))

\* task_2.py:63-72: the unvisited neighbours of the dequeued node are marked
\* and enqueued
BfsExpand ==
    /\ spc = "bfs_loop"
    /\ queue # <<>>
    /\ LET current == Head(queue).node
           path == Head(queue).path
           Unvisited(n) == n \notin visited
           added == SelectSeq(Neighbors(graph, current), Unvisited)
       IN  /\ current # goal
           /\ visited' = visited \cup Range(added)
           /\ queue' = Tail(queue) \o [k \in 1..Len(added) |-> BfsEnqueued(path, added[k])]
    /\ UNCHANGED <<graph, start, goal, stack, dfs_result, bfs_result, spc>>

\* task_2.py:62, 74: the queue is empty
BfsReturnNone ==
    /\ spc = "bfs_loop"
    /\ queue = <<>>
    /\ spc' = "done"
    /\ bfs_result' = NoneResult
    /\ UNCHANGED <<graph, start, goal, visited, stack, queue, dfs_result>>

(***************************************************************************)
(* task_3: dijkstra_shortest_path and its callers.                         *)
(* nx.dijkstra_path / nx.dijkstra_path_length run networkx's               *)
(* _dijkstra_multisource: a heap of (distance, push count, node).          *)
(***************************************************************************)
\* the weight networkx takes for an edge without the attribute: 1
DefaultWeight == 1000

\* a slip: the attribute is never found, every edge costs the default
EdgeCostDefault(g, v, u) == DefaultWeight

\* weight(v, u, e) = e.get('weight', 1)
EdgeCost(g, v, u) ==
    IF HasWeight(g, {v, u}) THEN WeightOf(g, {v, u}) ELSE DefaultWeight

\* heappop: the least (distance, push count, node)
PopMin(fringe) ==
    CHOOSE e \in fringe : \A f \in fringe :
        e[1] < f[1] \/ (e[1] = f[1] /\ e[2] <= f[2])

RECURSIVE Relax(_, _, _, _)
\* the loop over G._adj[v].items(): an edge to a finalized node that would
\* shorten it raises ValueError; a shorter or first distance is pushed
Relax(g, st, v, nbrs) ==
    IF nbrs = <<>> \/ st.error THEN st
    ELSE LET u == nbrs[1]
             vu_dist == st.dist[v] + EdgeCost(g, v, u)
         IN  IF u \in DOMAIN st.dist
             THEN IF vu_dist < st.dist[u]
                  THEN [st EXCEPT !.error = TRUE]
                  ELSE Relax(g, st, v, Tail(nbrs))
             ELSE IF u \notin DOMAIN st.seen \/ vu_dist < st.seen[u]
                  THEN Relax(g,
                             [st EXCEPT !.seen = DictSet(@, u, vu_dist),
                                        !.fringe = @ \cup {<<vu_dist, st.c, u>>},
                                        !.c = @ + 1,
                                        !.paths = DictSet(@, u, Append(st.paths[v], u))],
                             v, Tail(nbrs))
                  ELSE Relax(g, st, v, Tail(nbrs))

RECURSIVE DijkstraLoop(_, _, _)
\* while fringe: pop; skip a finalized node; finalize; stop at the target
DijkstraLoop(g, target, st) ==
    IF st.fringe = {} \/ st.error THEN st
    ELSE LET e == PopMin(st.fringe)
             d == e[1]
             v == e[3]
             popped == [st EXCEPT !.fringe = @ \ {e}]
         IN  IF v \in DOMAIN st.dist THEN DijkstraLoop(g, target, popped)
             ELSE LET final == [popped EXCEPT !.dist = DictSet(@, v, d)]
                  IN  IF v = target THEN final
                      ELSE DijkstraLoop(g, target, Relax(g, final, v, g.adj[v]))

DijkstraOutcome(outcome, path, dist) == [outcome |-> outcome, path |-> path, dist |-> dist]

\* nx.dijkstra_path and nx.dijkstra_path_length (one search decides both):
\* NodeNotFound for a source that is no node, the trivial path for
\* source = target, NetworkXNoPath when the target is not reached
DijkstraPath(g, source, target) ==
    IF ~HasNode(g, source) THEN DijkstraOutcome("NodeNotFound", <<>>, 0)
    ELSE IF source = target THEN DijkstraOutcome("ok", <<source>>, 0)
    ELSE LET st == DijkstraLoop(g, target,
                       [dist |-> EmptyDict, seen |-> DictSet(EmptyDict, source, 0),
                        paths |-> DictSet(EmptyDict, source, <<source>>),
                        fringe |-> {<<0, 0, source>>}, c |-> 1, error |-> FALSE])
         IN  IF st.error THEN DijkstraOutcome("ValueError", <<>>, 0)
             ELSE IF target \in DOMAIN st.dist
                  THEN DijkstraOutcome("ok", st.paths[target], st.dist[target])
                  ELSE DijkstraOutcome("NetworkXNoPath", <<>>, 0)

\* what dijkstra_shortest_path gives its caller
Triple(path, total, details) ==
    [kind |-> "tuple", path |-> path, total_distance |-> total, edge_details |-> details, error |-> ""]
NoneTriple ==
    [kind |-> "None", path |-> <<>>, total_distance |-> 0, edge_details |-> <<>>, error |-> ""]
Raised(error) ==
    [kind |-> "raise", path |-> <<>>, total_distance |-> 0, edge_details |-> <<>>, error |-> error]

\* a slip: no except clause for nx.NodeNotFound
DijkstraShortestPathUncaught(g, s, t) ==
    LET r == DijkstraPath(g, s, t)
    IN  IF r.outcome = "NetworkXNoPath" THEN NoneTriple
        ELSE IF r.outcome = "NodeNotFound" THEN Raised("NodeNotFound")
        ELSE Triple(r.path, r.dist, <<>>)

\* task_3.py:54-71
DijkstraShortestPath(g, s, t) ==
    LET r == DijkstraPath(g, s, t)
        path == r.path
    IN  IF r.outcome \in {"NetworkXNoPath", "NodeNotFound"} THEN NoneTriple
        ELSE IF r.outcome = "ValueError" THEN Raised("ValueError")
        ELSE IF \E k \in 1..(Len(path) - 1) : ~HasWeight(g, {path[k], path[k + 1]})
             THEN Raised("KeyError")
             ELSE Triple(path, r.dist,
                         [k \in 1..(Len(path) - 1) |->
                             <<path[k], path[k + 1], WeightOf(g, {path[k], path[k + 1]})>>])

\* task_3.py:214: main's arguments
MainArgs == [min_weight |-> 2000, max_weight |-> 3000, seed |-> 42]

\* task_3.py:214: weighted_G = add_random_weights(G, 2, 3, seed=42)
MainAddWeights ==
    /\ dpc = "main"
    /\ weighted_G' = RunAlone(graph, MainArgs)
    /\ dpc' = "query"
    /\ UNCHANGED <<dij_result, bfs_cmp, display_result, demo_error>>

\* the call dijkstra_shortest_path(graph, start, goal)
DijkstraCall ==
    /\ dpc = "query"
    /\ dpc' = "returned"
    /\ dij_result' = DijkstraShortestPath(weighted_G, start, goal)
    /\ UNCHANGED <<weighted_G, bfs_cmp, display_result, demo_error>>

NextSearch ==
    \/ DfsNotInGraph /\ UNCHANGED <<buildVars, weightVars, dijkstraVars>>
    \/ DfsBegin /\ UNCHANGED <<buildVars, weightVars, dijkstraVars>>
    \/ DfsReturnPath /\ UNCHANGED <<buildVars, weightVars, dijkstraVars>>
    \/ DfsExpand /\ UNCHANGED <<buildVars, weightVars, dijkstraVars>>
    \/ DfsSkip /\ UNCHANGED <<buildVars, weightVars, dijkstraVars>>
    \/ DfsReturnNone /\ UNCHANGED <<buildVars, weightVars, dijkstraVars>>
    \/ BfsNotInGraph /\ UNCHANGED <<buildVars, weightVars, dijkstraVars>>
    \/ BfsBegin /\ UNCHANGED <<buildVars, weightVars, dijkstraVars>>
    \/ BfsReturnPath /\ UNCHANGED <<buildVars, weightVars, dijkstraVars>>
    \/ BfsExpand /\ UNCHANGED <<buildVars, weightVars, dijkstraVars>>
    \/ BfsReturnNone /\ UNCHANGED <<buildVars, weightVars, dijkstraVars>>

\* task_2's comparison of the two searches, then task_3's weights and
\* Dijkstra query, on one loaded graph and one pair of stations
Next ==
    \/ NextSearch
    \/ spc = "done" /\ MainAddWeights /\ UNCHANGED <<buildVars, weightVars, searchVars>>
    \/ spc = "done" /\ DijkstraCall /\ UNCHANGED <<buildVars, weightVars, searchVars>>

Spec == InitSearch /\ [][Next]_vars

(***************************************************************************)
(* Claims about dfs_path and bfs_path.                                     *)
(***************************************************************************)
RECURSIVE Within(_, _, _)
\* the stations at most k edges from s
Within(g, s, k) ==
    IF k = 0 THEN {s}
    ELSE LET W == Within(g, s, k - 1)
         IN  W \cup UNION {Range(g.adj[n]) : n \in W}

\* s and t are stations of one connected component
Connected(g, s, t) == HasNode(g, s) /\ HasNode(g, t) /\ t \in Within(g, s, Len(g.nodes))

\* the least number of edges of a path from s to t (s, t connected)
Distance(g, s, t) == CHOOSE k \in 0..Len(g.nodes) :
    t \in Within(g, s, k) /\ \A j \in 0..(k - 1) : t \notin Within(g, s, j)

\* p is a path of g from s to t
IsPath(g, p, s, t) ==
    /\ Len(p) >= 1
    /\ p[1] = s /\ p[Len(p)] = t
    /\ \A k \in 1..(Len(p) - 1) : HasEdge(g, p[k], p[k + 1])

\* C1: for start and goal in one component, bfs_path returns a path from
\* start to goal along edges of the graph with the least number of edges.
C1_BfsPathIsShortest ==
    (spc = "done" /\ Connected(graph, start, goal)) =>
        /\ bfs_result.kind = "list"
        /\ IsPath(graph, bfs_result.value, start, goal)
        /\ Len(bfs_result.value) - 1 = Distance(graph, start, goal)

\* C1 witness: bfs_path has returned a path of two edges where dfs_path
\* returned a longer one.
C1_Witness ==
    /\ spc = "done"
    /\ Connected(graph, start, goal)
    /\ Len(bfs_result.value) = 3
    /\ Len(dfs_result.value) > 3

\* C2: for a connected start/goal pair both searches return a path, and the
\* BFS path has no more stations than the DFS path.
C2_BfsNotLongerThanDfs ==
    (spc = "done" /\ Connected(graph, start, goal)) =>
        /\ dfs_result.kind = "list"
        /\ bfs_result.kind = "list"
        /\ Len(bfs_result.value) <= Len(dfs_result.value)

\* C2 witness: both searches returned and the DFS path is strictly longer.
C2_Witness ==
    /\ spc = "done"
    /\ Connected(graph, start, goal)
    /\ dfs_result.kind = "list" /\ bfs_result.kind = "list"
    /\ Len(bfs_result.value) < Len(dfs_result.value)


\* start or goal is no station of the graph
AbsentCase == ~HasNode(graph, start) \/ ~HasNode(graph, goal)

\* start and goal are stations of different connected components
NoPathCase == HasNode(graph, start) /\ HasNode(graph, goal) /\ ~Connected(graph, start, goal)

\* dfs_path, bfs_path and dijkstra_shortest_path have all returned
AllReturned == spc = "done" /\ dpc = "returned"

WeightChoices == {[has |-> FALSE, w |-> 0]} \cup {[has |-> TRUE, w |-> x] : x \in {-1000, 0, 1000, 3000}}

\* g with the weights ws (a choice per edge)
WithWeights(g, ws) ==
    [g EXCEPT !.eattr = [e \in DOMAIN g.eattr |->
        IF ws[e].has
        THEN [g.eattr[e] EXCEPT !.weight = ws[e].w, !.keys = @ \cup {"weight"}]
        ELSE g.eattr[e]]]

WeightedGraphs ==
    UNION {{WithWeights(g, ws) : ws \in [DOMAIN g.eattr -> WeightChoices]} :
           g \in GraphsUpTo(SmallStations, MaxDijkstraEdges)}

InitDijkstra ==
    /\ BuildIdle
    /\ WeightsIdle
    /\ graph = EmptyGraph
    /\ start \in SmallStations \cup {NoStation}
    /\ goal \in SmallStations \cup {NoStation}
    /\ visited = {}
    /\ stack = <<>>
    /\ queue = <<>>
    /\ dfs_result = None
    /\ bfs_result = None
    /\ spc = "idle"
    /\ weighted_G \in WeightedGraphs
    /\ dij_result = None
    /\ bfs_cmp = None
    /\ display_result = None
    /\ demo_error = None
    /\ dpc = "query"

\* nx.shortest_path(graph, start, goal): a path of the least number of
\* edges; which of several is the library's choice
ShortestPaths(g, s, t) ==
    {p \in [1..(Distance(g, s, t) + 1) -> Range(g.nodes)] : IsPath(g, p, s, t)}

RECURSIVE PathWeight(_, _)
\* task_3.py:131-134
PathWeight(g, p) ==
    IF Len(p) <= 1 THEN 0
    ELSE PathWeight(g, SubSeq(p, 1, Len(p) - 1)) + WeightOf(g, {p[Len(p) - 1], p[Len(p)]})

PathEdges(p) == {{p[k], p[k + 1]} : k \in 1..(Len(p) - 1)}

\* task_3.py:126-134 for the path p of nx.shortest_path
BfsComparison(g, p) ==
    IF \E e \in PathEdges(p) : ~HasWeight(g, e)
    THEN [kind |-> "raise", bfs_path |-> p, bfs_weighted_distance |-> 0, error |-> "KeyError"]
    ELSE [kind |-> "ok", bfs_path |-> p, bfs_weighted_distance |-> PathWeight(g, p), error |-> ""]

\* task_3.py:182-184, 126-134: a path was returned, compare_with_bfs runs
CompareWithBfs ==
    /\ dpc = "returned"
    /\ dij_result.kind = "tuple"
    /\ \E p \in ShortestPaths(weighted_G, start, goal) :
          bfs_cmp' = BfsComparison(weighted_G, p)
    /\ dpc' = "compared"
    /\ UNCHANGED <<weighted_G, dij_result, display_result, demo_error>>

NextDijkstra ==
    \/ DijkstraCall /\ UNCHANGED <<buildVars, weightVars, searchVars>>
    \/ CompareWithBfs /\ UNCHANGED <<buildVars, weightVars, searchVars>>

SpecDijkstra == InitDijkstra /\ [][NextDijkstra]_vars

(***************************************************************************)
(* Claims about dijkstra_shortest_path.                                    *)
(***************************************************************************)
\* every edge has a weight and none is negative
NonNegativeWeights(g) ==
    \A e \in DOMAIN g.eattr : HasWeight(g, e) /\ WeightOf(g, e) >= 0

\* C3: on a graph of non-negative weights and a connected start/goal pair,
\* the total distance dijkstra_shortest_path returns is at most the sum of
\* the weights along the unweighted shortest path compare_with_bfs takes.
C3_DijkstraNotLongerThanBfs ==
    (dpc = "compared" /\ NonNegativeWeights(weighted_G) /\ Connected(weighted_G, start, goal)) =>
        /\ dij_result.kind = "tuple"
        /\ bfs_cmp.kind = "ok"
        /\ IsPath(weighted_G, dij_result.path, start, goal)
        /\ dij_result.total_distance = PathWeight(weighted_G, dij_result.path)
        /\ dij_result.total_distance <= bfs_cmp.bfs_weighted_distance

\* C3 witness: the route of fewest edges costs more than the route
\* Dijkstra returned.
C3_Witness ==
    /\ dpc = "compared"
    /\ NonNegativeWeights(weighted_G)
    /\ bfs_cmp.kind = "ok"
    /\ Len(dij_result.path) > Len(bfs_cmp.bfs_path)
    /\ dij_result.total_distance < bfs_cmp.bfs_weighted_distance

\* some edge has no weight or a negative one
InvalidWeights(g) == ~NonNegativeWeights(g)

\* C11: a query on a graph in which some edge lacks a weight or has a
\* negative weight never returns a path/distance result, and where the
\* stations are connected it ends in a failure raised to the caller.
C11_InvalidWeightNeverReturnsPath ==
    (dpc \in {"returned", "compared"} /\ InvalidWeights(weighted_G)) =>
        /\ dij_result.kind # "tuple"
        /\ Connected(weighted_G, start, goal) => dij_result.kind = "raise"

(***************************************************************************)
(* Termination of the searches: the interpreter keeps running the loops,   *)
(* so a step that can be taken is taken.                                   *)
(***************************************************************************)
\* task_2.py:6-9 and the stations the caller names: the graph is loaded
\* and a query is chosen
LoadGraph ==
    /\ spc = "load"
    /\ spc' = "dfs_call"
    /\ graph' \in GraphsUpTo(Stations, MaxEdges)
    /\ start' \in Queries
    /\ goal' \in Queries
    /\ UNCHANGED <<visited, stack, queue, dfs_result, bfs_result>>

InitFair ==
    /\ BuildIdle
    /\ WeightsIdle
    /\ graph = EmptyGraph
    /\ start = NoStation
    /\ goal = NoStation
    /\ visited = {}
    /\ stack = <<>>
    /\ queue = <<>>
    /\ dfs_result = NotReturned
    /\ bfs_result = NotReturned
    /\ spc = "load"
    /\ weighted_G = EmptyGraph
    /\ dij_result = NotReturnedTriple
    /\ bfs_cmp = None
    /\ display_result = None
    /\ demo_error = None
    /\ dpc = "idle"

NextFair ==
    \/ LoadGraph /\ UNCHANGED <<buildVars, weightVars, dijkstraVars>>
    \/ NextSearch

\* every step of NextSearch changes one of these: a position, or the stack
\* or queue (what is pushed has a longer path than what was popped)
position == <<spc, visited, stack, queue>>

SpecFair == InitFair /\ [][NextFair]_vars /\ WF_position(NextSearch)

\* both searches have returned
SearchesReturned ==
    /\ spc = "done"
    /\ dfs_result.kind \in {"list", "None"}
    /\ bfs_result.kind \in {"list", "None"}

\* a pass of the dfs loop that processed the popped node: it marked it or
\* pushed something
DfsExpansion ==
    /\ spc = "dfs_loop" /\ spc' = "dfs_loop"
    /\ stack # <<>>
    /\ visited' # visited \/ stack' # StackRest(stack)

\* dfs: only the popped node is marked, in the pass that expands it, and it
\* was not marked before; marks are never taken back, so no node is
\* expanded twice
DfsExpandsOnce ==
    /\ spc = "dfs_loop" => visited \subseteq visited'
    /\ (spc = "dfs_loop" /\ stack # <<>>) => visited' \subseteq visited \cup {StackTop(stack).node}
    /\ DfsExpansion =>
          /\ StackTop(stack).node \notin visited
          /\ StackTop(stack).node \in visited'
          /\ \A k \in Len(stack)..Len(stack') : stack'[k].node \notin visited'

\* bfs: what a pass appends to the queue was unmarked before and is marked
\* after, no node twice in one pass; marks are never taken back, so no node
\* is enqueued twice
BfsEnqueuesOnce ==
    /\ spc = "bfs_loop" => visited \subseteq visited'
    /\ (spc = "bfs_call" /\ spc' = "bfs_loop") =>
          /\ Len(queue') = 1
          /\ visited' = {queue'[1].node}
    /\ (spc = "bfs_loop" /\ spc' = "bfs_loop" /\ queue # <<>>) =>
          /\ SubSeq(queue', 1, Len(queue) - 1) = Tail(queue)
          /\ \A k \in Len(queue)..Len(queue') :
                /\ queue'[k].node \notin visited
                /\ queue'[k].node \in visited'
                /\ \A j \in Len(queue)..Len(queue') : queue'[j].node = queue'[k].node => j = k

\* C12: on every graph and for every start and goal, dfs_path and bfs_path
\* eventually return (a path or None); dfs marks a node only when it is
\* popped and expands it at most once, bfs enqueues a node at most once.
C12_SearchesTerminateExpandOnce ==
    /\ (spc = "dfs_call") ~> SearchesReturned
    /\ [][DfsExpandsOnce /\ BfsEnqueuesOnce]_position

\* C12 witness: the dfs stack holds the same node twice.
C12_Witness ==
    /\ spc = "dfs_loop"
    /\ \E j, k \in 1..Len(stack) : j < k /\ stack[j].node = stack[k].node

(***************************************************************************)
(* task_3: demonstrate_dijkstra(graph, start, goal) and the                *)
(* display_shortest_path it calls.                                         *)
(***************************************************************************)
\* line 174: the first 5 edges are printed
SampleCount == 5

\* display_shortest_path has not returned
NotDisplayed == [kind |-> "pending", path |-> <<>>, total_distance |-> 0]
\* line 87: a bare return
DisplayedNone == [kind |-> "None", path |-> <<>>, total_distance |-> 0]
\* line 115: return path, total_distance
DisplayedPair(path, total) == [kind |-> "pair", path |-> path, total_distance |-> total]

InitDemo ==
    /\ BuildIdle
    /\ WeightsIdle
    /\ graph = EmptyGraph
    /\ start \in SmallStations \cup {NoStation}
    /\ goal \in SmallStations \cup {NoStation}
    /\ visited = {}
    /\ stack = <<>>
    /\ queue = <<>>
    /\ dfs_result = None
    /\ bfs_result = None
    /\ spc = "idle"
    /\ weighted_G \in WeightedGraphs
    /\ dij_result = NotReturnedTriple
    /\ bfs_cmp = None
    /\ display_result = NotDisplayed
    /\ demo_error = None
    /\ dpc = "demo"

\* task_3.py:173-176: the sample weights are formatted with .2f; the 'N/A'
\* of an edge without a weight cannot be (ValueError)
DemonstrateSamples ==
    /\ dpc = "demo"
    /\ LET edges == EdgesOf(weighted_G)
           shown == IF Len(edges) < SampleCount THEN Len(edges) ELSE SampleCount
       IN  IF \E k \in 1..shown : ~HasWeight(weighted_G, {edges[k][1], edges[k][2]})
           THEN dpc' = "raised" /\ demo_error' = "ValueError"
           ELSE dpc' = "display" /\ demo_error' = demo_error
    /\ UNCHANGED <<weighted_G, dij_result, bfs_cmp, display_result>>

\* task_3.py:74-115: display_shortest_path calls dijkstra_shortest_path,
\* returns at line 87 when path is None, and the pair at line 115
DisplayShortestPath ==
    /\ dpc = "display"
    /\ LET r == DijkstraShortestPath(weighted_G, start, goal)
       IN  /\ dij_result' = r
           /\ IF r.kind = "raise"
              THEN dpc' = "raised" /\ demo_error' = r.error /\ display_result' = display_result
              ELSE /\ dpc' = "displayed"
                   /\ demo_error' = demo_error
                   /\ display_result' = IF r.kind = "None" THEN DisplayedNone
                                        ELSE DisplayedPair(r.path, r.total_distance)
    /\ UNCHANGED <<weighted_G, bfs_cmp>>

\* task_3.py:180: path, distance = display_shortest_path(...); None cannot
\* be unpacked (TypeError)
DemonstrateUnpack ==
    /\ dpc = "displayed"
    /\ IF display_result.kind = "None"
       THEN dpc' = "raised" /\ demo_error' = "TypeError"
       ELSE dpc' = "unpacked" /\ demo_error' = demo_error
    /\ UNCHANGED <<weighted_G, dij_result, bfs_cmp, display_result>>

\* task_3.py:182-203: if path: compare_with_bfs(...); then the key concepts
\* are printed and the function returns
DemonstrateCompare ==
    /\ dpc = "unpacked"
    /\ IF display_result.path = <<>>
       THEN dpc' = "finished" /\ UNCHANGED <<bfs_cmp, demo_error>>
       ELSE \E p \in ShortestPaths(weighted_G, start, goal) :
               LET c == BfsComparison(weighted_G, p)
               IN  /\ bfs_cmp' = c
                   /\ IF c.kind = "raise"
                      THEN dpc' = "raised" /\ demo_error' = c.error
                      ELSE dpc' = "finished" /\ demo_error' = demo_error
    /\ UNCHANGED <<weighted_G, dij_result, display_result>>

NextDemo ==
    \/ DemonstrateSamples /\ UNCHANGED <<buildVars, weightVars, searchVars>>
    \/ DisplayShortestPath /\ UNCHANGED <<buildVars, weightVars, searchVars>>
    \/ DemonstrateUnpack /\ UNCHANGED <<buildVars, weightVars, searchVars>>
    \/ DemonstrateCompare /\ UNCHANGED <<buildVars, weightVars, searchVars>>

SpecDemo == InitDemo /\ [][NextDemo]_vars

\* C13: when dijkstra_shortest_path reports no result (start or goal absent,
\* or no path), display_shortest_path and demonstrate_dijkstra branch on it
\* and finish normally: no error is raised.
C13_NoResultHandledWithoutError ==
    dij_result.kind = "None" => dpc # "raised"

=============================================================================
